---- MODULE Spec2Model ----
(***************************************************************************)
(* The Accord state driver of crates/diststore/src/accord/node/mod.rs and  *)
(* the raft client of crates/raft/src/client/mod.rs.                       *)
(*                                                                         *)
(* StateDriver (start, handle_msg, send_outbound, send_execution_actions)  *)
(* is translated from the source.  CoordinatorState (node/coordinator.rs), *)
(* ReplicaState (node/replica.rs), the Executor and the transport are not  *)
(* part of the source tree: their operations follow sections 4.1 to 4.4    *)
(* of the specification.                                                   *)
(***************************************************************************)
EXTENDS Integers, Sequences, FiniteSets, TLC

VARIABLES
    topo,       \* TopologyManager snapshot: the set of node ids
    inbox,      \* inbox[<<s, d>>]: messages from s queued on d's inbound channel
    driver,     \* driver[n]: "running", "failed" (start returned Err) or "stopped"
    outOpen,    \* outOpen[n]: the receiver of n's outbound channel is alive
    coord,      \* coord[n]: CoordinatorState of node n
    replica,    \* replica[n]: ReplicaState of node n
    store,      \* store[n][k]: the Executor's local store of node n
    env,        \* the environment: what clients and faults may still do
    lastOut,    \* the outbound messages enqueued by the latest handle_msg
    lastIn,     \* the inbound message handled by the latest handle_msg
    hist,       \* history of the run (observations only, never read by the code)
    client,     \* the raft ConsensusClient and the call in progress on it
    quorum      \* the quorum sizes the TopologyManager snapshot holds

vars == <<topo, inbox, driver, outOpen, coord, replica, store, env,
          lastOut, lastIn, hist, client, quorum>>

----------------------------------------------------------------------------
(* Bounds of the model. *)

MaxTx == 2          \* transactions begun in one run of three nodes
MaxTxWide == 2      \* transactions begun in one run of four nodes
MaxTxFault == 2     \* transactions begun in one run with faults
MaxTxStop == 1      \* transactions begun in one run with inbound channels closing
MaxTxFive == 1      \* transactions begun in one run of five nodes
MaxTxChain == 3     \* transactions of a dependency chain
MaxCalls == 2       \* calls made on one raft client
MaxNodes == 9       \* nodes of a topology whose quorum sizes are computed
MaxFault == 1       \* faults in one run: an Executor failure, the outbound
                    \* receiver closing, an injected or a re-delivered message

AllNodes == {1, 2, 3, 4, 5}
Topology3 == {1, 2, 3}
Topology4 == {1, 2, 3, 4}
Topology5 == {1, 2, 3, 4, 5}
Keys == {"a", "b"}
KeySets == {{"a"}, {"b"}}
NoVal == <<>>

----------------------------------------------------------------------------
(* Timestamps and transaction ids: <<logical, node>>, ordered               *)
(* lexicographically.                                                       *)

TsLess(x, y) == x[1] < y[1] \/ (x[1] = y[1] /\ x[2] < y[2])
TsLeq(x, y) == x = y \/ TsLess(x, y)
TsMaxOf(S) == CHOOSE t \in S : \A u \in S : TsLeq(u, t)

(* Quorum sizes of a topology of n nodes. *)
FastQuorum(n) == (3 * n + 3) \div 4
SlowQuorum(n) == (n \div 2) + 1

(* The snapshot before the quorum sizes are computed. *)
NoQuorum == [fast |-> 0, slow |-> 0]

(* The quorum sizes of the snapshot of a topology. *)
QuorumSizes(nodes) ==
    [fast |-> FastQuorum(Cardinality(nodes)), slow |-> SlowQuorum(Cardinality(nodes))]

(* Address: Local | Peer(id) | Peers. *)
Local == [kind |-> "Local", id |-> 0]
Peers == [kind |-> "Peers", id |-> 0]
Peer(p) == [kind |-> "Peer", id |-> p]

(* ProtocolMessage: one record shape for every variant. *)
Msg(tag, id, ts, deps, keys, kind, pay) ==
    [tag |-> tag, id |-> id, ts |-> ts, deps |-> deps, keys |-> keys,
     kind |-> kind, pay |-> pay]

Put(f, x, v) == [y \in (DOMAIN f) \cup {x} |-> IF y = x THEN v ELSE f[y]]


----------------------------------------------------------------------------
(* CoordinatorState (specification 4.2).  c = [counter, tally]; tally maps  *)
(* the TxIds this node coordinates to their quorum tallies.                 *)

NoDecision == [kind |-> "None", ts |-> <<0, 0>>, deps |-> {}]

NewCoordinator == [counter |-> 0, tally |-> <<>>]

(* new_read_tx / new_write_tx: a fresh TxId from the monotonic counter and  *)
(* the node id, a tally entry, and the PreAccept payload.                   *)
NewTx(c, n, keys, kind) ==
    LET id == <<c.counter + 1, n>>
        t  == [keys |-> keys, kind |-> kind, phase |-> "AwaitingPreAccept",
               pre |-> <<>>, acc |-> {}, reads |-> <<>>, ts |-> id, deps |-> {}]
    IN  [c   |-> [counter |-> c.counter + 1, tally |-> Put(c.tally, id, t)],
         msg |-> Msg("PreAccept", id, id, {}, keys, kind, NoVal)]

(* A message naming a TxId without a tally entry is a Protocol error; a     *)
(* message of an older phase of an already-advanced transaction is ignored. *)
Unknown(c, m) == m.id \notin DOMAIN c.tally

(* A faulty variant of InPhase: a response is counted in every phase. *)
InPhaseAlways(c, m, phase) == TRUE

InPhase(c, m, phase) == c.tally[m.id].phase = phase

(* store_proposal: record the response; F identical proposals commit on the *)
(* fast path, else S responses start the Accept round with the maximum      *)
(* timestamp and the union of the dependencies.                             *)
StoreProposal(c, from, m, n) ==
    IF Unknown(c, m)
    THEN [err |-> TRUE, c |-> c, dec |-> NoDecision]
    ELSE IF ~InPhase(c, m, "AwaitingPreAccept")
    THEN [err |-> FALSE, c |-> c, dec |-> NoDecision]
    ELSE
    LET t     == c.tally[m.id]
        pre1  == Put(t.pre, from, [ts |-> m.ts, deps |-> m.deps])
        props == {pre1[q] : q \in DOMAIN pre1}
        fast  == {p \in props :
                    Cardinality({q \in DOMAIN pre1 : pre1[q] = p}) >= FastQuorum(n)}
    IN  IF fast # {}
        THEN LET p == CHOOSE p \in fast : TRUE
             IN  [err |-> FALSE,
                  c   |-> [c EXCEPT !.tally[m.id] =
                             [t EXCEPT !.pre = pre1, !.ts = p.ts, !.deps = p.deps,
                                       !.phase = "AwaitingRead"]],
                  dec |-> [kind |-> "Commit", ts |-> p.ts, deps |-> p.deps]]
        ELSE IF Cardinality(DOMAIN pre1) >= SlowQuorum(n)
        THEN LET ts   == TsMaxOf({p.ts : p \in props})
                 deps == UNION {p.deps : p \in props}
             IN  [err |-> FALSE,
                  c   |-> [c EXCEPT !.tally[m.id] =
                             [t EXCEPT !.pre = pre1, !.ts = ts, !.deps = deps,
                                       !.phase = "AwaitingAccept"]],
                  dec |-> [kind |-> "Accept", ts |-> ts, deps |-> deps]]
        ELSE [err |-> FALSE,
              c   |-> [c EXCEPT !.tally[m.id] = [t EXCEPT !.pre = pre1]],
              dec |-> NoDecision]

(* store_accept_ok: once S peers acknowledged, commit the proposed values.  *)
StoreAcceptOk(c, from, m, n) ==
    IF Unknown(c, m)
    THEN [err |-> TRUE, c |-> c, dec |-> NoDecision]
    ELSE IF ~InPhase(c, m, "AwaitingAccept")
    THEN [err |-> FALSE, c |-> c, dec |-> NoDecision]
    ELSE
    LET t    == c.tally[m.id]
        acc1 == t.acc \cup {from}
    IN  IF Cardinality(acc1) >= SlowQuorum(n)
        THEN [err |-> FALSE,
              c   |-> [c EXCEPT !.tally[m.id] =
                         [t EXCEPT !.acc = acc1, !.phase = "AwaitingRead"]],
              dec |-> [kind |-> "Commit", ts |-> t.ts, deps |-> t.deps]]
        ELSE [err |-> FALSE,
              c   |-> [c EXCEPT !.tally[m.id] = [t EXCEPT !.acc = acc1]],
              dec |-> NoDecision]

(* start_execute: the read request (id, tx, deps, keys) of a known id.      *)
StartExecute(c, m) ==
    IF Unknown(c, m)
    THEN [err |-> TRUE, c |-> c, msg |-> m]
    ELSE LET t == c.tally[m.id]
         IN  [err |-> FALSE, c |-> c,
              msg |-> Msg("Read", m.id, t.ts, t.deps, t.keys, t.kind, NoVal)]

(* The write effect of the submitted command: a write transaction sets each *)
(* of its keys to a value that names the transaction.                       *)
Writes(id, t) == IF t.kind = "Write" THEN [k \in t.keys |-> id] ELSE <<>>

(* store_read_ok: once a read quorum of payloads is assembled, the Apply.   *)
StoreReadOk(c, m, n) ==
    IF Unknown(c, m)
    THEN [err |-> TRUE, c |-> c, dec |-> NoDecision, msg |-> m]
    ELSE IF ~InPhase(c, m, "AwaitingRead")
    THEN [err |-> FALSE, c |-> c, dec |-> NoDecision, msg |-> m]
    ELSE
    LET t      == c.tally[m.id]
        reads1 == Append(t.reads, m.pay)
    IN  IF Len(reads1) >= SlowQuorum(n)
        THEN [err |-> FALSE,
              c   |-> [c EXCEPT !.tally[m.id] =
                         [t EXCEPT !.reads = reads1, !.phase = "Completed"]],
              dec |-> [kind |-> "Apply", ts |-> t.ts, deps |-> t.deps],
              msg |-> Msg("Apply", m.id, t.ts, t.deps, t.keys, t.kind,
                          Writes(m.id, t))]
        ELSE [err |-> FALSE,
              c   |-> [c EXCEPT !.tally[m.id] = [t EXCEPT !.reads = reads1]],
              dec |-> NoDecision, msg |-> m]

----------------------------------------------------------------------------
(* ReplicaState (specification 4.3).  s = [clock, rec, pendR, pendA]: the   *)
(* witnessed clock, the transaction records, and the deferred Read and      *)
(* Apply requests.                                                          *)

NewReplica == [clock |-> 0, rec |-> <<>>, pendR |-> {}, pendA |-> {}]

AtLeastCommitted(s, u) ==
    u \in DOMAIN s.rec /\ s.rec[u].status \in {"Committed", "Applied"}
IsApplied(s, u) == u \in DOMAIN s.rec /\ s.rec[u].status = "Applied"

(* An older-phase message for an already-advanced transaction is ignored.   *)
Advanced(s, u, statuses) == u \in DOMAIN s.rec /\ s.rec[u].status \in statuses

(* Reads depend on writes; writes depend on reads and writes. *)
Conflicts(k1, k2) == k1 = "Write" \/ k2 = "Write"

(* A faulty variant of Witness: the replica proposes t0 whatever it has     *)
(* witnessed.                                                               *)
WitnessStale(t0, clock) == t0

(* proposed_tx = max(t0, local_clock() + 1), in the transaction's own       *)
(* timestamp lane (the node part of t0).                                    *)
Witness(t0, clock) == IF t0[1] >= clock + 1 THEN t0 ELSE <<clock + 1, t0[2]>>

(* receive_preaccept: witness the transaction, record it against its keys,  *)
(* and collect the recorded transactions on those keys with a smaller tx.   *)
ReceivePreaccept(s, m) ==
    IF Advanced(s, m.id, {"Accepted", "Committed", "Applied"})
    THEN [s   |-> s,
          msg |-> Msg("PreAcceptOk", m.id, s.rec[m.id].ts, s.rec[m.id].deps,
                      m.keys, m.kind, NoVal)]
    ELSE
    LET prop == Witness(m.ts, s.clock)
        rec1 == Put(s.rec, m.id,
                    [status |-> "PreAccepted", ts |-> prop, deps |-> {},
                     keys |-> m.keys, kind |-> m.kind])
        deps == {u \in DOMAIN rec1 :
                    /\ rec1[u].keys \cap m.keys # {}
                    /\ Conflicts(rec1[u].kind, m.kind)
                    /\ TsLess(rec1[u].ts, prop)}
    IN  [s   |-> [s EXCEPT !.clock = prop[1],
                           !.rec = [rec1 EXCEPT ![m.id].deps = deps]],
         msg |-> Msg("PreAcceptOk", m.id, prop, deps, m.keys, m.kind, NoVal)]

KeysOf(s, m) == IF m.id \in DOMAIN s.rec THEN s.rec[m.id].keys ELSE m.keys
KindOf(s, m) == IF m.id \in DOMAIN s.rec THEN s.rec[m.id].kind ELSE m.kind

(* A faulty variant of ReceiveAccept: a late Accept is stored as well.      *)
ReceiveAcceptAlways(s, m) ==
    [s   |-> [s EXCEPT !.rec = Put(s.rec, m.id,
                      [status |-> "Accepted", ts |-> m.ts, deps |-> m.deps,
                       keys |-> KeysOf(s, m), kind |-> KindOf(s, m)])],
     msg |-> Msg("AcceptOk", m.id, <<0, 0>>, {}, {}, m.kind, NoVal)]

(* receive_accept: store the coordinator's (tx, deps), status Accepted; a   *)
(* late Accept for an already-Committed id is a no-op.  Always acknowledged.*)
ReceiveAccept(s, m) ==
    [s   |-> IF Advanced(s, m.id, {"Committed", "Applied"}) THEN s
             ELSE [s EXCEPT !.rec = Put(s.rec, m.id,
                      [status |-> "Accepted", ts |-> m.ts, deps |-> m.deps,
                       keys |-> KeysOf(s, m), kind |-> KindOf(s, m)])],
     msg |-> Msg("AcceptOk", m.id, <<0, 0>>, {}, {}, m.kind, NoVal)]

(* receive_commit: install (tx, deps) as final, status Committed. *)
ReceiveCommit(s, m) ==
    IF Advanced(s, m.id, {"Applied"}) THEN s
    ELSE
    [s EXCEPT !.rec = Put(s.rec, m.id,
                      [status |-> "Committed", ts |-> m.ts, deps |-> m.deps,
                       keys |-> KeysOf(s, m), kind |-> KindOf(s, m)])]


(* Ordering among deferred siblings: by (tx, TxId), lexicographic. *)
First(S) ==
    CHOOSE r \in S : \A q \in S :
        q = r \/ TsLess(r.ts, q.ts) \/ (r.ts = q.ts /\ TsLeq(r.id, q.id))

(* Executor::read(id, keys): the local store's values of the keys. *)
ExecRead(st, r) ==
    Msg("ReadOk", r.id, <<0, 0>>, {}, r.keys, r.kind, [k \in r.keys |-> st[k]])

(* Executor::apply(id, writes): the writes installed in the local store. *)
ExecApply(st, r) ==
    [k \in DOMAIN st |-> IF k \in DOMAIN r.pay THEN r.pay[k] ELSE st[k]]

RECURSIVE ReadAll(_, _)
ReadAll(st, ready) ==
    IF ready = {} THEN <<>>
    ELSE LET r == First(ready)
         IN  <<ExecRead(st, r)>> \o ReadAll(st, ready \ {r})

(* A faulty variant of ApplyReady: it waits for the dependencies to be       *)
(* Committed, as a read does, not Applied.                                  *)
ApplyReadyCommitted(s, r) == \A u \in r.deps : AtLeastCommitted(s, u)

ReadReady(s, r) == \A u \in r.deps : AtLeastCommitted(s, u)
ApplyReady(s, r) == \A u \in r.deps : IsApplied(s, u)

(* receive_read: the read runs once every dependency is locally Committed;  *)
(* until then the request is deferred, and a later call re-evaluates the    *)
(* deferred requests.  fail: the Executor fails.                            *)
ReceiveRead(s, st, m, fail) ==
    LET cand  == s.pendR \cup {m}
        ready == {r \in cand : ReadReady(s, r)}
    IN  IF fail
        THEN [err |-> TRUE, s |-> s, acts |-> <<>>]
        ELSE [err |-> FALSE, s |-> [s EXCEPT !.pendR = cand \ ready],
              acts |-> ReadAll(st, ready)]

RECURSIVE ApplyAll(_, _, _, _)
ApplyAll(s, st, cand, acts) ==
    LET ready == {r \in cand : ApplyReady(s, r)}
    IN  IF ready = {}
        THEN [err |-> FALSE, s |-> [s EXCEPT !.pendA = cand], st |-> st,
              acts |-> acts]
        ELSE LET r  == First(ready)
                 s1 == [s EXCEPT !.rec = Put(s.rec, r.id,
                          [status |-> "Applied", ts |-> r.ts, deps |-> r.deps,
                           keys |-> KeysOf(s, r), kind |-> KindOf(s, r)])]
             IN  ApplyAll(s1, ExecApply(st, r), cand \ {r},
                          Append(acts, Msg("ApplyOk", r.id, <<0, 0>>, {}, {},
                                           r.kind, NoVal)))

(* receive_apply: the writes are applied once every dependency is locally   *)
(* Applied, status Applied, and the deferred transactions this unblocks are *)
(* advanced.  fail: the Executor fails.                                     *)
ReceiveApply(s, st, m, fail) ==
    IF fail
    THEN [err |-> TRUE, s |-> s, st |-> st, acts |-> <<>>]
    ELSE ApplyAll(s, st, s.pendA \cup {m}, <<>>)

(* Whether handling m on node n invokes the Executor. *)
InvokesExecutor(s, m) ==
    \/ m.tag = "Read" /\ \E r \in s.pendR \cup {m} : ReadReady(s, r)
    \/ m.tag = "Apply" /\ \E r \in s.pendA \cup {m} : ApplyReady(s, r)

----------------------------------------------------------------------------
(* StateDriver::handle_msg, one operator per match arm.  Each yields the    *)
(* states the coordinator, the replica and the executor are left in, the    *)
(* messages handed to send_outbound in order, and whether a callee          *)
(* returned Err (which `?` returns from handle_msg at once).                *)

Out(to, msg) == [to |-> to, msg |-> msg]

Result(n, err, c, s, st, outs) ==
    [err |-> err, c |-> c, s |-> s, st |-> st, outs |-> outs]

StartExecuteInternal(id) == Msg("StartExecute", id, <<0, 0>>, {}, {}, "Write", NoVal)

(* A faulty variant of the Begin arms: the PreAccept also goes to Local.    *)
OnBeginEcho(n, keys, kind) ==
    LET r == NewTx(coord[n], n, keys, kind)
    IN  Result(n, FALSE, r.c, replica[n], store[n],
               <<Out(Peers, r.msg), Out(Local, r.msg)>>)

OnBegin(n, keys, kind) ==
    LET r == NewTx(coord[n], n, keys, kind)
    IN  Result(n, FALSE, r.c, replica[n], store[n], <<Out(Peers, r.msg)>>)

OnStartExecute(n, from, m) ==
    LET r == StartExecute(coord[n], m)
    IN  Result(n, r.err, r.c, replica[n], store[n],
               IF r.err THEN <<>> ELSE <<Out(Peers, r.msg)>>)

(* A faulty variant of the PreAccept arm: the PreAcceptOk is broadcast.     *)
OnPreAcceptBroadcast(n, from, m) ==
    LET r == ReceivePreaccept(replica[n], m)
    IN  Result(n, FALSE, coord[n], r.s, store[n], <<Out(Peers, r.msg)>>)

(* A faulty variant of the PreAccept arm: it also installs the replica's    *)
(* own proposal as final.                                                   *)
OnPreAcceptFinal(n, from, m) ==
    LET r == ReceivePreaccept(replica[n], m)
    IN  Result(n, FALSE, coord[n], ReceiveCommit(r.s, r.msg), store[n],
               <<Out(Peer(from), r.msg)>>)

OnPreAccept(n, from, m) ==
    LET r == ReceivePreaccept(replica[n], m)
    IN  Result(n, FALSE, coord[n], r.s, store[n], <<Out(Peer(from), r.msg)>>)

(* A faulty variant of CommitOuts: the self-addressed StartExecute first.   *)
StartExecuteFirst(m, dec) ==
    <<Out(Local, StartExecuteInternal(m.id)),
      Out(Peers, Msg("Commit", m.id, dec.ts, dec.deps, {}, m.kind, NoVal))>>

(* The outbound messages of a commit decision: Commit to Peers, then the    *)
(* self-addressed StartExecute.                                             *)
CommitOuts(m, dec) ==
    <<Out(Peers, Msg("Commit", m.id, dec.ts, dec.deps, {}, m.kind, NoVal)),
      Out(Local, StartExecuteInternal(m.id))>>

AcceptOuts(m, dec) ==
    <<Out(Peers, Msg("Accept", m.id, dec.ts, dec.deps, {}, m.kind, NoVal))>>

(* A faulty variant of the PreAcceptOk arm: the Accept decision is treated  *)
(* as a Commit decision.                                                    *)
OnPreAcceptOkHasty(n, from, m) ==
    LET r == StoreProposal(coord[n], from, m, Cardinality(topo))
    IN  Result(n, r.err, r.c, replica[n], store[n],
               IF r.err THEN <<>>
               ELSE IF r.dec.kind \in {"Accept", "Commit"} THEN CommitOuts(m, r.dec)
               ELSE <<>>)

OnPreAcceptOk(n, from, m) ==
    LET r == StoreProposal(coord[n], from, m, Cardinality(topo))
    IN  Result(n, r.err, r.c, replica[n], store[n],
               IF r.err THEN <<>>
               ELSE IF r.dec.kind = "Accept" THEN AcceptOuts(m, r.dec)
               ELSE IF r.dec.kind = "Commit" THEN CommitOuts(m, r.dec)
               ELSE <<>>)

OnAccept(n, from, m) ==
    LET r == ReceiveAccept(replica[n], m)
    IN  Result(n, FALSE, coord[n], r.s, store[n], <<Out(Peer(from), r.msg)>>)

(* A faulty variant of the AcceptOk arm: every acknowledgement commits.     *)
OnAcceptOkEager(n, from, m) ==
    LET r == StoreAcceptOk(coord[n], from, m, Cardinality(topo))
    IN  Result(n, r.err, r.c, replica[n], store[n],
               IF ~r.err
               THEN CommitOuts(m, [kind |-> "Commit", ts |-> r.c.tally[m.id].ts,
                                   deps |-> r.c.tally[m.id].deps])
               ELSE <<>>)

OnAcceptOk(n, from, m) ==
    LET r == StoreAcceptOk(coord[n], from, m, Cardinality(topo))
    IN  Result(n, r.err, r.c, replica[n], store[n],
               IF ~r.err /\ r.dec.kind = "Commit" THEN CommitOuts(m, r.dec)
               ELSE <<>>)

(* receive_commit's Result carries no error in the operations of 4.3. *)
OnCommit(n, from, m) ==
    Result(n, FALSE, coord[n], ReceiveCommit(replica[n], m), store[n], <<>>)

(* send_execution_actions: every action goes to the same address, in order. *)
ExecutionOuts(to, acts) == [i \in 1..Len(acts) |-> Out(to, acts[i])]

OnRead(n, from, m, fail) ==
    LET r == ReceiveRead(replica[n], store[n], m, fail)
    IN  Result(n, r.err, coord[n], r.s, store[n],
               ExecutionOuts(Peer(from), r.acts))

OnReadOk(n, from, m) ==
    LET r == StoreReadOk(coord[n], m, Cardinality(topo))
    IN  Result(n, r.err, r.c, replica[n], store[n],
               IF ~r.err /\ r.dec.kind = "Apply" THEN <<Out(Peers, r.msg)>>
               ELSE <<>>)

(* A faulty variant of the Apply arm: the writes never reach the Executor's *)
(* store, and the ApplyOk is sent all the same.                             *)
OnApplyUnwritten(n, from, m, fail) ==
    LET r == ReceiveApply(replica[n], store[n], m, fail)
    IN  Result(n, r.err, coord[n], r.s, store[n],
               ExecutionOuts(Peer(from), r.acts))

OnApply(n, from, m, fail) ==
    LET r == ReceiveApply(replica[n], store[n], m, fail)
    IN  Result(n, r.err, coord[n], r.s, r.st,
               ExecutionOuts(Peer(from), r.acts))

(* A faulty variant of the ApplyOk arm: an unknown TxId is a Protocol error. *)
OnApplyOkStrict(n, from, m) ==
    Result(n, Unknown(coord[n], m), coord[n], replica[n], store[n], <<>>)

OnApplyOk(n, from, m) ==
    Result(n, FALSE, coord[n], replica[n], store[n], <<>>)


----------------------------------------------------------------------------
(* The transport behind the outbound channel (specification 4.1): Local     *)
(* re-enqueues into the node's own inbound path, Peers is the topology      *)
(* minus self, Peer(id) is unicast.  Each link is FIFO.  Nothing can be     *)
(* queued on an inbound channel whose senders are dropped (env.closed).     *)

Route(n, to) ==
    IF to.kind = "Local" THEN {n}
    ELSE IF to.kind = "Peers" THEN topo \ {n}
    ELSE {to.id} \cap topo

RECURSIVE Ship(_, _, _)
Ship(box, n, outs) ==
    IF outs = <<>> THEN box
    ELSE LET o  == Head(outs)
             ds == Route(n, o.to)
         IN  Ship([l \in DOMAIN box |->
                     IF l[1] = n /\ l[2] \in ds \ env.closed
                     THEN Append(box[l], o.msg)
                     ELSE box[l]],
                  n, Tail(outs))

(* send_outbound, called once per message in order: every call succeeds     *)
(* while the receiver of the outbound channel is alive, and the first call  *)
(* after it is gone returns OutboundSend.  k is the number of calls that    *)
(* succeed.                                                                 *)
SendCounts(n, outs) ==
    IF ~outOpen[n] THEN {0}
    ELSE {Len(outs)} \cup (IF env.faults > 0 THEN 0..(Len(outs) - 1) ELSE {})

(* What the run has shown so far. *)
AppliedIds(r) ==
    LET a == SelectSeq(r.outs, LAMBDA o : o.msg.tag = "ApplyOk")
    IN  [i \in 1..Len(a) |-> a[i].msg.id]

(* The decision a message carries. *)
Decision(m) == [id |-> m.id, ts |-> m.ts, deps |-> m.deps]

Decisions(outs, tag) ==
    LET a == SelectSeq(outs, LAMBDA o : o.msg.tag = tag)
    IN  [i \in 1..Len(a) |-> Decision(a[i].msg)]

(* The decisions ds, each appended to the ones already noted for its id. *)
RECURSIVE Noted(_, _)
Noted(f, ds) ==
    IF ds = <<>> THEN f
    ELSE LET d == Head(ds)
         IN  Noted(Put(f, d.id, Append(IF d.id \in DOMAIN f THEN f[d.id] ELSE <<>>, d)),
                   Tail(ds))

Acked(w) == IF w \in DOMAIN hist.acks THEN hist.acks[w] ELSE {}

Observe(n, from, m, r, k) ==
    [hist EXCEPT
       !.begun = IF env.chain # <<>> /\ m.tag \in {"BeginRead", "BeginWrite"} /\ r.outs # <<>>
                 THEN Append(@, r.outs[1].msg.id) ELSE @,
       !.applied[n] = IF m.tag = "Apply" /\ ~r.err THEN @ \o AppliedIds(r) ELSE @,
       !.props = IF m.tag = "PreAccept"
                 THEN @ \cup {[node |-> n, id |-> m.id, ts |-> r.outs[1].msg.ts,
                               deps |-> r.outs[1].msg.deps]}
                 ELSE @,
       !.fast = IF m.tag = "PreAcceptOk" /\ r.outs # <<>> /\ r.outs[1].msg.tag = "Commit"
                THEN @ \cup {[id |-> m.id, ts |-> r.outs[1].msg.ts,
                              deps |-> r.outs[1].msg.deps]}
                ELSE @,
       !.commits = @ \cup {r.outs[i].msg.id :
                              i \in {j \in 1..k : r.outs[j].msg.tag = "Commit"}},
       !.accepts = @ \cup {Decision(r.outs[i].msg) :
                              i \in {j \in 1..k : r.outs[j].msg.tag = "Accept"}},
       !.decided = Noted(@, Decisions(SubSeq(r.outs, 1, k), "Commit")),
       !.started = Noted(@, Decisions(SubSeq(r.outs, 1, k), "StartExecute")),
       !.acks = IF m.tag = "ApplyOk" /\ m.id \in DOMAIN coord[n].tally
                THEN Put(@, m.id, Acked(m.id) \cup {from})
                ELSE @,
       !.reads = IF m.tag = "Read" /\ ~r.err
                 THEN @ \cup {[node |-> n, id |-> r.outs[i].msg.id,
                               pay |-> r.outs[i].msg.pay,
                               after |-> {w \in DOMAIN hist.acks :
                                   /\ n \in hist.acks[w]
                                   /\ Cardinality(hist.acks[w]) >=
                                          SlowQuorum(Cardinality(topo))}] :
                              i \in 1..Len(r.outs)}
                 ELSE @]

ReplicaTags == {"PreAccept", "Accept", "Commit", "Read", "Apply"}

(* A faulty variant of DriverAfter: the loop logs the Err and goes on.      *)
DriverGoesOn(cur, failed) == cur

(* `?` on handle_msg in the loop of start: an Err ends the driver. *)
DriverAfter(cur, failed) == IF failed THEN "failed" ELSE cur

(* One iteration of StateDriver::start: handle_msg on message m from        *)
(* `from`, with result r of the match arm and k successful sends.           *)
Step(n, from, m, r, k, box, e1) ==
    LET failed == r.err \/ k < Len(r.outs)
        enq    == SubSeq(r.outs, 1, k)
    IN  /\ inbox' = Ship(box, n, enq)
        /\ driver' = [driver EXCEPT ![n] = DriverAfter(@, failed)]
        /\ outOpen' = [outOpen EXCEPT ![n] = IF k < Len(r.outs) THEN FALSE ELSE @]
        /\ env' = [e1 EXCEPT
                     !.faults = IF outOpen[n] /\ k < Len(r.outs) THEN @ - 1 ELSE @]
        /\ coord' = [coord EXCEPT ![n] = r.c]
        /\ replica' = [replica EXCEPT ![n] = r.s]
        /\ store' = [store EXCEPT ![n] = r.st]
        /\ lastOut' = enq
        /\ lastIn' = [node |-> n, from |-> from, msg |-> m,
                      result |-> IF r.err THEN "Err"
                                 ELSE IF k < Len(r.outs) THEN "OutboundSend"
                                 ELSE "Ok"]
        /\ hist' = Observe(n, from, m, r, k)
        /\ UNCHANGED <<topo, client, quorum>>

(* self.inbound.recv() yields the head of one of the node's links. *)
Receives(n, from, tag) ==
    /\ n \in topo /\ from \in topo
    /\ driver[n] = "running"
    /\ inbox[<<from, n>>] # <<>>
    /\ Head(inbox[<<from, n>>]).tag = tag

Popped(n, from) == [inbox EXCEPT ![<<from, n>>] = Tail(@)]

Handle(n, from, r, e1) ==
    \E k \in SendCounts(n, r.outs) :
        Step(n, from, Head(inbox[<<from, n>>]), r, k, Popped(n, from), e1)

(* The transport may keep a copy of a replica-side message it delivers, to  *)
(* deliver it a second time later.                                          *)
Copying(n, from) ==
    [env EXCEPT !.faults = @ - 1,
                !.copies = @ \cup {[from |-> from, to |-> n,
                                    msg |-> Head(inbox[<<from, n>>])]}]

Envs(n, from) == {env} \cup (IF env.faults > 0 THEN {Copying(n, from)} ELSE {})

(* The Executor may fail only when it is invoked. *)
FailChoices(n, m) ==
    {FALSE} \cup (IF env.faults > 0 /\ InvokesExecutor(replica[n], m)
                  THEN {TRUE} ELSE {})

Spend(fail) == [env EXCEPT !.faults = IF fail THEN @ - 1 ELSE @]

----------------------------------------------------------------------------
(* The actions: one per arm of handle_msg. *)

(* No PreAccept is still on its way to a replica. *)
PreAcceptsWitnessed ==
    \A l \in DOMAIN inbox : \A i \in 1..Len(inbox[l]) : inbox[l][i].tag # "PreAccept"

BeginMsg(tag, keys) == Msg(tag, <<0, 0>>, <<0, 0>>, {}, keys, "Write", NoVal)

Begin(n, keys, kind, tag) ==
    /\ n \in topo /\ n \in env.coords /\ n \notin env.closed
    /\ keys \in env.keysets /\ kind \in env.kinds
    /\ driver[n] = "running"
    /\ env.tx > 0
    /\ env.chain # <<>>
       => PreAcceptsWitnessed /\ n = env.chain[Len(env.chain) - env.tx + 1]
    /\ LET r == OnBegin(n, keys, kind)
       IN  \E k \in SendCounts(n, r.outs) :
               Step(n, n, BeginMsg(tag, keys), r, k, inbox,
                    [env EXCEPT !.tx = @ - 1])

HandleBeginRead ==
    \E n \in AllNodes, keys \in KeySets :
        /\ "Read" \in env.kinds
        /\ Begin(n, keys, "Read", "BeginRead")

HandleBeginWrite ==
    \E n \in AllNodes, keys \in KeySets :
        /\ "Write" \in env.kinds
        /\ Begin(n, keys, "Write", "BeginWrite")

HandleStartExecute ==
    \E n \in AllNodes, from \in AllNodes :
        /\ Receives(n, from, "StartExecute")
        /\ Handle(n, from, OnStartExecute(n, from, Head(inbox[<<from, n>>])), env)

HandlePreAccept ==
    \E n \in AllNodes, from \in AllNodes :
        /\ Receives(n, from, "PreAccept")
        /\ \E e1 \in Envs(n, from) :
               Handle(n, from, OnPreAccept(n, from, Head(inbox[<<from, n>>])), e1)

HandlePreAcceptOk ==
    \E n \in AllNodes, from \in AllNodes :
        /\ Receives(n, from, "PreAcceptOk")
        /\ Handle(n, from, OnPreAcceptOk(n, from, Head(inbox[<<from, n>>])), env)

HandleAccept ==
    \E n \in AllNodes, from \in AllNodes :
        /\ Receives(n, from, "Accept")
        /\ \E e1 \in Envs(n, from) :
               Handle(n, from, OnAccept(n, from, Head(inbox[<<from, n>>])), e1)

HandleAcceptOk ==
    \E n \in AllNodes, from \in AllNodes :
        /\ Receives(n, from, "AcceptOk")
        /\ Handle(n, from, OnAcceptOk(n, from, Head(inbox[<<from, n>>])), env)

HandleCommit ==
    \E n \in AllNodes, from \in AllNodes :
        /\ Receives(n, from, "Commit")
        /\ \E e1 \in Envs(n, from) :
               Handle(n, from, OnCommit(n, from, Head(inbox[<<from, n>>])), e1)

HandleRead ==
    \E n \in AllNodes, from \in AllNodes :
        /\ Receives(n, from, "Read")
        /\ \E fail \in FailChoices(n, Head(inbox[<<from, n>>])) :
           \E e1 \in IF fail THEN {Spend(fail)} ELSE Envs(n, from) :
               Handle(n, from, OnRead(n, from, Head(inbox[<<from, n>>]), fail), e1)

HandleReadOk ==
    \E n \in AllNodes, from \in AllNodes :
        /\ Receives(n, from, "ReadOk")
        /\ Handle(n, from, OnReadOk(n, from, Head(inbox[<<from, n>>])), env)

HandleApply ==
    \E n \in AllNodes, from \in AllNodes :
        /\ Receives(n, from, "Apply")
        /\ \E fail \in FailChoices(n, Head(inbox[<<from, n>>])) :
           \E e1 \in IF fail THEN {Spend(fail)} ELSE Envs(n, from) :
               Handle(n, from, OnApply(n, from, Head(inbox[<<from, n>>]), fail), e1)

HandleApplyOk ==
    \E n \in AllNodes, from \in AllNodes :
        /\ Receives(n, from, "ApplyOk")
        /\ Handle(n, from, OnApplyOk(n, from, Head(inbox[<<from, n>>])), env)

(* A peer or the local path delivers a message that names a TxId the        *)
(* coordinator of node n does not know: n never issues it.                  *)
UnknownId(n) == <<MaxTxFault + 1, n>>

Inject ==
    \E n \in topo, from \in topo,
       tag \in {"StartExecute", "PreAcceptOk", "AcceptOk", "ReadOk", "ApplyOk"} :
        /\ env.faults > 0 /\ n \notin env.closed
        /\ (tag = "StartExecute") = (from = n)
        /\ inbox' = [inbox EXCEPT ![<<from, n>>] =
                        Append(@, Msg(tag, UnknownId(n), UnknownId(n), {}, {"a"},
                                      "Write", [k \in {"a"} |-> NoVal]))]
        /\ env' = [env EXCEPT !.faults = @ - 1]
        /\ UNCHANGED <<quorum, client, topo, driver, outOpen, coord, replica, store, lastOut,
                       lastIn, hist>>

(* The transport delivers a replica-side message a second time. *)
Redeliver ==
    \E c \in env.copies :
        /\ c.to \notin env.closed
        /\ inbox' = [inbox EXCEPT ![<<c.from, c.to>>] = Append(@, c.msg)]
        /\ env' = [env EXCEPT !.copies = @ \ {c}]
        /\ UNCHANGED <<quorum, client, topo, driver, outOpen, coord, replica, store, lastOut,
                       lastIn, hist>>

(* Every sender of node n's inbound channel is dropped. *)
CloseInbound ==
    \E n \in topo :
        /\ env.closable /\ n \notin env.closed
        /\ env' = [env EXCEPT !.closed = @ \cup {n}]
        /\ UNCHANGED <<quorum, client, topo, inbox, driver, outOpen, coord, replica, store,
                       lastOut, lastIn, hist>>

(* A faulty variant of RecvNone: the loop ends as soon as the channel is    *)
(* closed, with messages still queued.                                      *)
RecvNoneUndrained(n) == n \in env.closed

(* self.inbound.recv() yields None: the channel is closed and drained. *)
RecvNone(n) ==
    n \in env.closed /\ \A d \in topo : inbox[<<d, n>>] = <<>>

(* The loop of start ends and start returns Ok(()). *)
Stop ==
    \E n \in topo :
        /\ driver[n] = "running"
        /\ RecvNone(n)
        /\ driver' = [driver EXCEPT ![n] = "stopped"]
        /\ UNCHANGED <<quorum, client, topo, inbox, outOpen, coord, replica, store, env,
                       lastOut, lastIn, hist>>

----------------------------------------------------------------------------
(* The raft client: ConsensusClient of crates/raft/src/client/mod.rs.       *)

(* let mut n_retry = 3 *)
NRetry == 3

RaftNodes == {1, 2, 3}

(* get_http_addr: the api socket address of each node of the cluster. *)
get_http_addr(i) == <<"127.0.0.1", 21000 + i>>
ApiAddrs == {get_http_addr(i) : i \in RaftNodes}

(* An api_addr string that names a host, not a socket address. *)
HostName == <<"localhost", 0>>

(* api_addr.parse::<SocketAddr>() succeeds. *)
Parses(a) == a \in ApiAddrs

(* The methods that go through send_rpc_to_leader, and those that call      *)
(* do_send_rpc_to_leader directly.                                          *)
Forwarding == {"write", "add_learner", "change_membership"}
Direct == {"read", "consistent_read", "init", "metrics"}

Requests == {"foo=bar", "foo=wow"}

(* What do_send_rpc_to_leader returns: Ok(resp), Err(RpcError::Network),    *)
(* or Err(RpcError::RemoteError) carrying either a ForwardToLeader with an  *)
(* optional leader id (0: None) and an optional leader node ("none": None)  *)
(* or some other error of the remote node.                                  *)
NoNode == <<"none", 0>>
Reply(kind, id, node) == [kind |-> kind, id |-> id, node |-> node]
Replies ==
    {Reply(k, 0, NoNode) : k \in {"Ok", "Network", "Remote"}}
    \cup {Reply("Forward", i, get_http_addr(i)) : i \in RaftNodes}
    \cup {Reply("Forward", 1, HostName), Reply("Forward", 1, NoNode),
          Reply("Forward", 0, get_http_addr(1)), Reply("Forward", 0, NoNode)}
NoReply == Reply("None", 0, NoNode)

(* ConsensusClient::new(leader_id, leader_addr), with the bookkeeping of    *)
(* the call in progress: the requests sent and the replies received.        *)
NewClient(leader_id, leader_addr, calls) ==
    [leader |-> <<leader_id, leader_addr>>, created |-> <<leader_id, leader_addr>>,
     pc |-> "idle", uri |-> "none", req |-> "none", n_retry |-> 0,
     sent |-> <<>>, got |-> <<>>, result |-> NoReply, calls |-> calls]

(* No raft client exists. *)
NoClient == NewClient(0, NoNode, 0)

(* if let Ok(ForwardToLeader {leader_id: Some(..), leader_node: Some(..)}) *)
NamesLeader(r) == r.kind = "Forward" /\ r.id # 0 /\ r.node # NoNode

Return(c, r) == [c EXCEPT !.pc = "done", !.result = r]

(* A faulty variant of AfterReply: the loop goes on after every error.      *)
AfterReplyAnyError(c, r) ==
    IF r.kind = "Ok" THEN Return(c, r)
    ELSE IF NamesLeader(r) /\ ~Parses(r.node) THEN [c EXCEPT !.pc = "panicked"]
    ELSE LET c1 == [c EXCEPT !.leader = IF NamesLeader(r) THEN <<r.id, r.node>> ELSE @,
                             !.n_retry = @ - 1]
         IN  IF c1.n_retry > 0 THEN [c1 EXCEPT !.pc = "sending"] ELSE Return(c1, r)

(* A faulty variant of AfterReply: the stored leader is not updated.        *)
AfterReplyStale(c, r) ==
    IF r.kind = "Ok" \/ ~NamesLeader(r) THEN Return(c, r)
    ELSE IF ~Parses(r.node) THEN [c EXCEPT !.pc = "panicked"]
    ELSE LET c1 == [c EXCEPT !.n_retry = @ - 1]
         IN  IF c1.n_retry > 0 THEN [c1 EXCEPT !.pc = "sending"] ELSE Return(c1, r)

(* A faulty variant of AfterReply: the loop goes round while n_retry is not *)
(* negative, which makes 3 retries after the first attempt.                 *)
AfterReplyOneMore(c, r) ==
    IF r.kind = "Ok" \/ ~NamesLeader(r) THEN Return(c, r)
    ELSE IF ~Parses(r.node) THEN [c EXCEPT !.pc = "panicked"]
    ELSE LET c1 == [c EXCEPT !.leader = <<r.id, r.node>>, !.n_retry = @ - 1]
         IN  IF c1.n_retry >= 0 THEN [c1 EXCEPT !.pc = "sending"] ELSE Return(c1, r)

(* A faulty variant of AfterReply: the stored leader is updated only when   *)
(* the loop goes round again.                                               *)
AfterReplyLastKept(c, r) ==
    IF r.kind = "Ok" \/ ~NamesLeader(r) THEN Return(c, r)
    ELSE IF ~Parses(r.node) THEN [c EXCEPT !.pc = "panicked"]
    ELSE LET c1 == [c EXCEPT !.n_retry = @ - 1]
         IN  IF c1.n_retry > 0
             THEN [c1 EXCEPT !.pc = "sending", !.leader = <<r.id, r.node>>]
             ELSE Return(c1, r)

(* The body of the loop of send_rpc_to_leader after do_send_rpc_to_leader   *)
(* returned r: Ok is returned; a ForwardToLeader that names the leader      *)
(* updates the stored leader (the unwrap of the parse panics on an address  *)
(* that is no socket address), counts one retry and goes round the loop     *)
(* while retries are left; every other error is returned.                   *)
AfterReply(c, r) ==
    IF r.kind = "Ok" \/ ~NamesLeader(r) THEN Return(c, r)
    ELSE IF ~Parses(r.node) THEN [c EXCEPT !.pc = "panicked"]
    ELSE LET c1 == [c EXCEPT !.leader = <<r.id, r.node>>, !.n_retry = @ - 1]
         IN  IF c1.n_retry > 0 THEN [c1 EXCEPT !.pc = "sending"] ELSE Return(c1, r)

Accord == <<topo, inbox, driver, outOpen, coord, replica, store, env,
            lastOut, lastIn, hist>>

(* A method of the client is called with a request. *)
Call(uri, n_retry) ==
    /\ client.pc \in {"idle", "done", "panicked"}
    /\ client.calls > 0
    /\ \E req \in Requests :
           client' = [client EXCEPT !.pc = "sending", !.uri = uri, !.req = req,
                                    !.n_retry = n_retry, !.sent = <<>>, !.got = <<>>,
                                    !.result = NoReply, !.calls = @ - 1]
    /\ UNCHANGED <<Accord, quorum>>

write ==
    /\ Call("write", NRetry)

add_learner ==
    /\ Call("add_learner", NRetry)

change_membership ==
    /\ Call("change_membership", NRetry)

read ==
    /\ Call("read", 0)

consistent_read ==
    /\ Call("consistent_read", 0)

init ==
    /\ Call("init", 0)

metrics ==
    /\ Call("metrics", 0)

(* do_send_rpc_to_leader, first half: the request goes to the address of    *)
(* the stored leader.                                                       *)
SendRequest ==
    /\ client.pc = "sending"
    /\ client' = [client EXCEPT !.pc = "awaiting",
                     !.sent = Append(@, [to |-> client.leader, uri |-> client.uri,
                                         req |-> client.req])]
    /\ UNCHANGED <<Accord, quorum>>

(* do_send_rpc_to_leader, second half, and what its caller does with the    *)
(* result.                                                                  *)
ReceiveReply ==
    /\ client.pc = "awaiting"
    /\ \E r \in Replies :
           LET c == [client EXCEPT !.got = Append(@, r)]
           IN  client' = IF client.uri \in Direct THEN Return(c, r) ELSE AfterReply(c, r)
    /\ UNCHANGED <<Accord, quorum>>

----------------------------------------------------------------------------
(* The state after Node::start on every node of the topology. *)

NoMsg == Msg("None", <<0, 0>>, <<0, 0>>, {}, {}, "Write", NoVal)

InitWith(nodes, e1) ==
    /\ topo = nodes
    /\ inbox = [l \in nodes \X nodes |-> <<>>]
    /\ driver = [n \in nodes |-> "running"]
    /\ outOpen = [n \in nodes |-> TRUE]
    /\ coord = [n \in nodes |-> NewCoordinator]
    /\ replica = [n \in nodes |-> NewReplica]
    /\ store = [n \in nodes |-> [k \in Keys |-> NoVal]]
    /\ env = e1
    /\ lastOut = <<>>
    /\ lastIn = [node |-> 0, from |-> 0, msg |-> NoMsg, result |-> "Ok"]
    /\ hist = [applied |-> [n \in nodes |-> <<>>], props |-> {}, fast |-> {},
               acks |-> <<>>, reads |-> {}, commits |-> {},
               begun |-> <<>>, accepts |-> {}, decided |-> <<>>, started |-> <<>>]
    /\ client = NoClient
    /\ quorum = QuorumSizes(nodes)

(* Three nodes, no faults. *)
Init ==
    InitWith(Topology3,
             [tx |-> MaxTx, coords |-> {1, 2}, keysets |-> KeySets,
              kinds |-> {"Read", "Write"}, faults |-> 0, copies |-> {},
              closable |-> FALSE, closed |-> {}, chain |-> <<>>])

(* Four nodes, no faults: the smallest topology whose peers can form a      *)
(* fast-path quorum. *)
InitWide ==
    InitWith(Topology4,
             [tx |-> MaxTxWide, coords |-> {1, 2}, keysets |-> {{"a"}},
              kinds |-> {"Write"}, faults |-> 0, copies |-> {},
              closable |-> FALSE, closed |-> {}, chain |-> <<>>])

(* Three nodes, one coordinator, and faults. *)
InitFault ==
    InitWith(Topology3,
             [tx |-> MaxTxFault, coords |-> {1}, keysets |-> {{"a"}},
              kinds |-> {"Write"}, faults |-> MaxFault, copies |-> {},
              closable |-> FALSE, closed |-> {}, chain |-> <<>>])

Next ==
    \/ HandleBeginRead
    \/ HandleBeginWrite
    \/ HandleStartExecute
    \/ HandlePreAccept
    \/ HandlePreAcceptOk
    \/ HandleAccept
    \/ HandleAcceptOk
    \/ HandleCommit
    \/ HandleRead
    \/ HandleReadOk
    \/ HandleApply
    \/ HandleApplyOk

Spec == Init /\ [][Next]_vars

NextWide ==
    \/ HandleBeginWrite
    \/ HandleStartExecute
    \/ HandlePreAccept
    \/ HandlePreAcceptOk
    \/ HandleAccept
    \/ HandleAcceptOk
    \/ HandleCommit
    \/ HandleRead
    \/ HandleReadOk
    \/ HandleApply
    \/ HandleApplyOk

SpecWide == InitWide /\ [][NextWide]_vars

NextFault == NextWide \/ Inject \/ Redeliver

SpecFault == InitFault /\ [][NextFault]_vars

(* Three nodes whose inbound channels may close; the runtime keeps          *)
(* scheduling the driver tasks.                                             *)
InitStop ==
    InitWith(Topology3,
             [tx |-> MaxTxStop, coords |-> {1}, keysets |-> {{"a"}},
              kinds |-> {"Write"}, faults |-> 0, copies |-> {},
              closable |-> TRUE, closed |-> {}, chain |-> <<>>])

(* The nodes that begin the writes of a chain, in order: node 1 begins all *)
(* of them, or node 2 the first and node 1 the others.                      *)
ChainPlans ==
    {[i \in 1..MaxTxChain |-> 1], [i \in 1..MaxTxChain |-> IF i = 1 THEN 2 ELSE 1]}

(* Three nodes and a chain of writes of one key, each begun once the        *)
(* PreAccept of the previous one has been witnessed.                        *)
InitChain ==
    \E plan \in ChainPlans :
        InitWith(Topology3,
                 [tx |-> MaxTxChain, coords |-> {1, 2}, keysets |-> {{"a"}},
                  kinds |-> {"Write"}, faults |-> 0, copies |-> {},
                  closable |-> FALSE, closed |-> {}, chain |-> plan])

SpecChain == InitChain /\ [][NextWide]_vars

NextStop == NextWide \/ CloseInbound \/ Stop

SpecStop == InitStop /\ [][NextStop]_vars /\ WF_vars(NextStop)

(* A raft client created for one of the three nodes of the cluster; the    *)
(* Accord nodes are not running.  Every request sent gets an answer or a    *)
(* network error.                                                           *)
InitRaft ==
    /\ topo = {}
    /\ inbox = <<>> /\ driver = <<>> /\ outOpen = <<>>
    /\ coord = <<>> /\ replica = <<>> /\ store = <<>>
    /\ env = [tx |-> 0, coords |-> {}, keysets |-> {}, kinds |-> {}, faults |-> 0,
              copies |-> {}, closable |-> FALSE, closed |-> {}, chain |-> <<>>]
    /\ lastOut = <<>>
    /\ lastIn = [node |-> 0, from |-> 0, msg |-> NoMsg, result |-> "Ok"]
    /\ hist = [applied |-> <<>>, props |-> {}, fast |-> {}, acks |-> <<>>,
               reads |-> {}, commits |-> {}, begun |-> <<>>, accepts |-> {},
               decided |-> <<>>, started |-> <<>>]
    /\ \E i \in RaftNodes : client = NewClient(i, get_http_addr(i), MaxCalls)
    /\ quorum = NoQuorum

NextRaft ==
    \/ write
    \/ add_learner
    \/ change_membership
    \/ read
    \/ consistent_read
    \/ init
    \/ metrics
    \/ SendRequest
    \/ ReceiveReply

SpecRaft ==
    InitRaft /\ [][NextRaft]_vars /\ WF_vars(SendRequest) /\ WF_vars(ReceiveReply)

(* Five nodes, one coordinator, no faults: the smallest topology in which   *)
(* the slow-path quorum is reached before every peer has answered.          *)
InitFive ==
    InitWith(Topology5,
             [tx |-> MaxTxFive, coords |-> {1}, keysets |-> {{"a"}},
              kinds |-> {"Write"}, faults |-> 0, copies |-> {},
              closable |-> FALSE, closed |-> {}, chain |-> <<>>])

SpecFive == InitFive /\ [][NextWide]_vars

(* The TopologyManager takes the snapshot of a topology. *)
TakeSnapshot ==
    /\ quorum = NoQuorum
    /\ quorum' = QuorumSizes(topo)
    /\ UNCHANGED <<Accord, client>>

(* A topology of one to MaxNodes nodes, no node running yet. *)
InitQuorum ==
    /\ topo \in SUBSET (1..MaxNodes) \ {{}}
    /\ inbox = <<>> /\ driver = <<>> /\ outOpen = <<>>
    /\ coord = <<>> /\ replica = <<>> /\ store = <<>>
    /\ env = [tx |-> 0, coords |-> {}, keysets |-> {}, kinds |-> {}, faults |-> 0,
              copies |-> {}, closable |-> FALSE, closed |-> {}, chain |-> <<>>]
    /\ lastOut = <<>>
    /\ lastIn = [node |-> 0, from |-> 0, msg |-> NoMsg, result |-> "Ok"]
    /\ hist = [applied |-> <<>>, props |-> {}, fast |-> {}, acks |-> <<>>,
               reads |-> {}, commits |-> {}, begun |-> <<>>, accepts |-> {},
               decided |-> <<>>, started |-> <<>>]
    /\ client = NoClient
    /\ quorum = NoQuorum

NextQuorum ==
    \/ TakeSnapshot

SpecQuorum == InitQuorum /\ [][NextQuorum]_vars

----------------------------------------------------------------------------
(* The properties. *)

Committed(n) == {u \in DOMAIN replica[n].rec : AtLeastCommitted(replica[n], u)}

(* C1, commit agreement: any two replicas that hold a transaction as        *)
(* Committed or Applied store the same executeAt timestamp and the same     *)
(* dependency set for it.                                                   *)
CommitAgreement ==
    \A n1 \in topo, n2 \in topo :
        \A u \in Committed(n1) \cap Committed(n2) :
            /\ replica[n1].rec[u].ts = replica[n2].rec[u].ts
            /\ replica[n1].rec[u].deps = replica[n2].rec[u].deps

(* Two replicas proposed differently for a transaction, and both hold it    *)
(* as Committed or Applied.                                                 *)
CommitAgreementReached ==
    \E n1 \in topo, n2 \in topo :
        /\ n1 # n2
        /\ \E u \in Committed(n1) \cap Committed(n2) :
             \E p1 \in hist.props, p2 \in hist.props :
                /\ p1.id = u /\ p1.node = n1
                /\ p2.id = u /\ p2.node = n2
                /\ <<p1.ts, p1.deps>> # <<p2.ts, p2.deps>>

Position(seq, u) == {i \in 1..Len(seq) : seq[i] = u}

(* C2, execution order: when a replica applies transaction T, every member  *)
(* of T's committed deps has been applied on that replica strictly before.  *)
ExecutionOrder ==
    \A n \in topo : \A i \in 1..Len(hist.applied[n]) :
        \A u \in replica[n].rec[hist.applied[n][i]].deps :
            \E j \in Position(hist.applied[n], u) : j < i

(* A replica applied a transaction with a dependency. *)
ExecutionOrderReached ==
    \E n \in topo : \E i \in 1..Len(hist.applied[n]) :
        replica[n].rec[hist.applied[n][i]].deps # {}

StatusOf(s, u) == IF u \in DOMAIN s.rec THEN s.rec[u].status ELSE "none"

Edges ==
    {<<"none", "PreAccepted">>, <<"PreAccepted", "Accepted">>,
     <<"PreAccepted", "Committed">>, <<"Accepted", "Committed">>,
     <<"Committed", "Applied">>}

Deliver(s, st, m) ==
    IF m.tag = "PreAccept" THEN [s |-> ReceivePreaccept(s, m).s, st |-> st]
    ELSE IF m.tag = "Accept" THEN [s |-> ReceiveAccept(s, m).s, st |-> st]
    ELSE IF m.tag = "Commit" THEN [s |-> ReceiveCommit(s, m), st |-> st]
    ELSE IF m.tag = "Read" THEN [s |-> ReceiveRead(s, st, m, FALSE).s, st |-> st]
    ELSE IF m.tag = "Apply"
    THEN LET r == ReceiveApply(s, st, m, FALSE) IN [s |-> r.s, st |-> r.st]
    ELSE [s |-> s, st |-> st]

(* C5, idempotence: for every replica-side message m at the head of a       *)
(* replica's inbound link, delivering m twice in a row leaves the same      *)
(* ReplicaState as delivering it once.                                      *)
Idempotence ==
    \A n \in topo, from \in topo :
        (inbox[<<from, n>>] # <<>> /\ Head(inbox[<<from, n>>]).tag \in ReplicaTags)
        => LET m    == Head(inbox[<<from, n>>])
               once == Deliver(replica[n], store[n], m)
           IN  Deliver(once.s, once.st, m).s = once.s

WriteKeys(w) ==
    IF coord[w[2]].tally[w].kind = "Write" THEN coord[w[2]].tally[w].keys ELSE {}

(* The value v was written on node n by w or by a write applied after w. *)
Reflects(n, v, w) ==
    \E i \in Position(hist.applied[n], w), j \in Position(hist.applied[n], v) :
        i <= j

(* C6, no lost writes: once the coordinator of write W has ApplyOk for W    *)
(* from a majority, a read executed afterwards on a replica of that         *)
(* majority returns, for every key W wrote, W's value or a later write's.   *)
NoLostWrites ==
    \A rd \in hist.reads : \A w \in rd.after :
        \A k \in WriteKeys(w) \cap DOMAIN rd.pay :
            Reflects(rd.node, rd.pay[k], w)

(* A read transaction was executed on a replica of the majority that        *)
(* acknowledged a write of its key, and returned that write.                *)
NoLostWritesReached ==
    \E rd \in hist.reads : \E w \in rd.after :
        /\ coord[rd.id[2]].tally[rd.id].kind = "Read"
        /\ \E k \in WriteKeys(w) \cap DOMAIN rd.pay : rd.pay[k] = w

IsCommitOut(o, id) == o.to = Peers /\ o.msg.tag = "Commit" /\ o.msg.id = id
IsStartExecuteOut(o, id) == o.to = Local /\ o.msg.tag = "StartExecute" /\ o.msg.id = id

(* C7, Commit precedes StartExecute: handling one inbound message, the      *)
(* driver enqueues StartExecute(T) to Local only right after Commit(T) to   *)
(* Peers, a commit decision enqueues both, and Read(T) is enqueued only     *)
(* after Commit(T) was.                                                     *)
CommitPrecedesStartExecute ==
    /\ \A i \in 1..Len(lastOut) :
          lastOut[i].msg.tag = "StartExecute"
          => i > 1 /\ IsCommitOut(lastOut[i - 1], lastOut[i].msg.id)
                   /\ IsStartExecuteOut(lastOut[i], lastOut[i].msg.id)
    /\ \A i \in 1..Len(lastOut) :
          (lastOut[i].msg.tag = "Commit" /\ lastIn.result = "Ok")
          => i < Len(lastOut) /\ IsCommitOut(lastOut[i], lastOut[i].msg.id)
                              /\ IsStartExecuteOut(lastOut[i + 1], lastOut[i].msg.id)
    /\ \A i \in 1..Len(lastOut) :
          lastOut[i].msg.tag = "Read" => lastOut[i].msg.id \in hist.commits

(* A Read broadcast was enqueued in a run in which one transaction was      *)
(* committed from a PreAcceptOk and another from an AcceptOk.               *)
CommitPrecedesStartExecuteReached ==
    /\ lastOut # <<>> /\ lastOut[1].msg.tag = "Read"
    /\ hist.fast # {}
    /\ hist.commits \ {f.id : f \in hist.fast} # {}

CoordinatorTags == {"ReadOk", "PreAcceptOk", "AcceptOk", "StartExecute"}

(* C8, protocol errors are non-fatal: after the driver handled a ReadOk,    *)
(* PreAcceptOk, AcceptOk or StartExecute naming a TxId its coordinator does *)
(* not know, nothing was enqueued and the driver is still running.          *)
ProtocolErrorsNonFatal ==
    (/\ lastIn.msg.tag \in CoordinatorTags
     /\ lastIn.msg.id \notin DOMAIN coord[lastIn.node].tally)
    => lastOut = <<>> /\ driver[lastIn.node] = "running"

(* C9, Executor failure is retryable: after the Executor failed while the   *)
(* replica handled a Read or an Apply, no ReadOk or ApplyOk was enqueued    *)
(* and the driver is still running, so that a re-delivery is handled.       *)
ExecutorFailureRetryable ==
    (lastIn.msg.tag \in {"Read", "Apply"} /\ lastIn.result = "Err")
    => lastOut = <<>> /\ driver[lastIn.node] = "running"

Extends(longer, shorter) ==
    Len(longer) >= Len(shorter) /\ SubSeq(longer, 1, Len(shorter)) = shorter

(* A node whose driver failed handles no inbound message and enqueues none. *)
Halted(n) ==
    driver[n] = "failed"
    => /\ driver'[n] = "failed"
       /\ coord'[n] = coord[n] /\ replica'[n] = replica[n] /\ store'[n] = store[n]
       /\ \A d \in topo : Extends(inbox'[<<d, n>>], inbox[<<d, n>>])
       /\ <<lastIn, lastOut>>' # <<lastIn, lastOut>> => lastIn'.node # n

(* C10, outbound send failure is fatal: a failed send_outbound ends         *)
(* handle_msg with OutboundSend before any further message of the same      *)
(* inbound message is enqueued (no StartExecute after a failed Commit), the *)
(* driver loop ends, and the node handles no later inbound message.         *)
OutboundSendFatal ==
    /\ [](lastIn.result = "OutboundSend"
          => /\ driver[lastIn.node] = "failed"
             /\ \A i \in 1..Len(lastOut) : lastOut[i].msg.tag # "StartExecute")
    /\ [][\A n \in topo : Halted(n)]_vars

(* The Commit of a commit decision failed to be enqueued, and the node has  *)
(* inbound messages left.                                                   *)
OutboundSendFatalReached ==
    /\ lastIn.result = "OutboundSend"
    /\ lastIn.msg.tag = "AcceptOk"
    /\ lastOut = <<>>
    /\ \E d \in topo : inbox[<<d, lastIn.node>>] # <<>>

(* C11, clean shutdown: a driver returns Ok only when its inbound channel   *)
(* is closed and drained, a driver ends only by that or by handle_msg       *)
(* returning an error, and once the inbound channel is closed the driver    *)
(* eventually returns, with Ok unless a fatal error ends it.                *)
CleanShutdown ==
    /\ [](\A n \in Topology3 :
             driver[n] = "stopped"
             => n \in env.closed /\ \A d \in Topology3 : inbox[<<d, n>>] = <<>>)
    /\ [][\A n \in Topology3 :
             driver'[n] # driver[n]
             => \/ driver'[n] = "stopped" /\ n \in env.closed
                \/ /\ driver'[n] = "failed"
                   /\ lastIn'.node = n /\ lastIn'.result # "Ok"]_vars
    /\ \A n \in Topology3 :
          (n \in env.closed) ~> (driver[n] \in {"stopped", "failed"})

(* A driver returned Ok after it handled the Apply of a transaction. *)
CleanShutdownReached ==
    \E n \in topo :
        /\ driver[n] = "stopped"
        /\ \E u \in DOMAIN replica[n].rec : IsApplied(replica[n], u)

ReplyTag(tag) ==
    IF tag = "PreAccept" THEN "PreAcceptOk"
    ELSE IF tag = "Accept" THEN "AcceptOk"
    ELSE IF tag = "Read" THEN "ReadOk"
    ELSE "ApplyOk"

LastN(seq, k) == SubSeq(seq, Len(seq) - k + 1, Len(seq))

(* C12, replies go to the sender: handling a PreAccept, Accept, Read or     *)
(* Apply from p, every message the node enqueues is the matching Ok         *)
(* addressed Peer(p), it travels as a message from the handling node, and   *)
(* a PreAccept or an Accept is answered by exactly one message.             *)
RepliesToSender ==
    lastIn.msg.tag \in {"PreAccept", "Accept", "Read", "Apply"}
    => /\ \A i \in 1..Len(lastOut) :
             /\ lastOut[i].to = Peer(lastIn.from)
             /\ lastOut[i].msg.tag = ReplyTag(lastIn.msg.tag)
       /\ lastIn.msg.tag \in {"PreAccept", "Accept"} => Len(lastOut) = 1
       /\ LET link == inbox[<<lastIn.node, lastIn.from>>]
          IN  /\ Len(link) >= Len(lastOut)
              /\ LastN(link, Len(lastOut)) =
                    [i \in 1..Len(lastOut) |-> lastOut[i].msg]

(* A Read was answered with two ReadOk, one of them for a deferred read. *)
RepliesToSenderReached ==
    /\ lastIn.msg.tag = "Read"
    /\ Len(lastOut) = 2

Begun == UNION {DOMAIN coord[n].tally : n \in topo}

(* C13, fresh transaction ids: handling a BeginRead or BeginWrite, a node   *)
(* enqueues exactly one PreAccept, addressed to Peers, whose TxId no node   *)
(* has begun before and is larger than every TxId that node allocated.      *)
FreshTxIds ==
    [][lastIn'.msg.tag \in {"BeginRead", "BeginWrite"}
       => LET n == lastIn'.node
          IN  /\ Len(lastOut') = 1
              /\ lastOut'[1].to = Peers
              /\ lastOut'[1].msg.tag = "PreAccept"
              /\ lastOut'[1].msg.id \notin Begun
              /\ \A u \in DOMAIN coord[n].tally : TsLess(u, lastOut'[1].msg.id)
              /\ DOMAIN coord'[n].tally =
                    DOMAIN coord[n].tally \cup {lastOut'[1].msg.id}]_vars

(* A node has just begun its second transaction. *)
FreshTxIdsReached ==
    /\ lastIn.msg.tag \in {"BeginRead", "BeginWrite"}
    /\ Cardinality(DOMAIN coord[lastIn.node].tally) = 2

(* No message is queued anywhere: the run has come to rest. *)
AtRest == \A l \in DOMAIN inbox : inbox[l] = <<>>

TallyOf(u) == coord[u[2]].tally[u]

(* The only transaction begun so far is a write. *)
SingleWrite ==
    /\ Cardinality(Begun) = 1
    /\ \A u \in Begun : TallyOf(u).kind = "Write"

(* C14, uncontended single write: with three nodes and one write in the     *)
(* system, both peers propose (t0, no deps) and the coordinator never       *)
(* enqueues an Accept: the Commit comes directly from the PreAcceptOk.      *)
UncontendedFastPath ==
    SingleWrite
    => /\ \A p \in hist.props : p.ts = p.id /\ p.deps = {}
       /\ \A i \in 1..Len(lastOut) : lastOut[i].msg.tag # "Accept"

(* C15, a committed write reaches every node: when the run of a single      *)
(* write has come to rest, the Executor store of every node, the            *)
(* coordinating node included, holds the write.                             *)
WriteReachesEveryNode ==
    (SingleWrite /\ AtRest)
    => \A u \in Begun : \A n \in topo : \A k \in TallyOf(u).keys :
          store[n][k] = u

(* Two writes of a common key begun by two different coordinators. *)
ConflictingWrites(u, v) ==
    /\ u \in Begun /\ v \in Begun /\ u[2] # v[2]
    /\ WriteKeys(u) \cap WriteKeys(v) # {}

(* Replica n holds both transactions as committed, u with the smaller       *)
(* committed timestamp.                                                     *)
CommittedInOrder(n, u, v) ==
    /\ u \in Committed(n) /\ v \in Committed(n)
    /\ TsLess(replica[n].rec[u].ts, replica[n].rec[v].ts)

DuplicatePreAcceptSameAnswer ==
    \A p \in hist.props, q \in hist.props :
        (p.node = q.node /\ p.id = q.id) => p = q

LastOf(seq) == seq[Len(seq)]

(* C19, bounded leader-forwarding retry: a call of send_rpc_to_leader sends *)
(* its request again only after a ForwardToLeader that names a leader id    *)
(* and a leader node, sends it at most 3 times after the first attempt,     *)
(* returns every other outcome at once, and always comes to an end.         *)
BoundedLeaderRetry ==
    /\ [](client.uri \in Forwarding
          => /\ Len(client.sent) - 1 <= 3
             /\ (client.pc = "sending" /\ client.sent # <<>>)
                => NamesLeader(LastOf(client.got))
             /\ (client.got # <<>> /\ ~NamesLeader(LastOf(client.got)))
                => /\ client.pc = "done"
                   /\ client.result = LastOf(client.got)
                   /\ Len(client.sent) = Len(client.got))
    /\ (client.uri \in Forwarding /\ client.pc \in {"sending", "awaiting"})
       ~> (client.pc \in {"done", "panicked"})

(* A write was forwarded until its retries ran out, and returned the last   *)
(* ForwardToLeader to its caller.                                           *)
BoundedLeaderRetryReached ==
    /\ client.uri = "write" /\ client.pc = "done"
    /\ Len(client.sent) = NRetry /\ NamesLeader(client.result)

(* The leader a ForwardToLeader names. *)
Named(r) == <<r.id, r.node>>

(* The first answer of the call in progress is a ForwardToLeader naming a   *)
(* leader with a socket address.                                            *)
FirstForwards ==
    /\ client.uri \in Forwarding /\ client.got # <<>>
    /\ NamesLeader(client.got[1]) /\ Parses(client.got[1].node)

(* C20, writes to a non-leader are forwarded: when the node a write,        *)
(* add_learner or change_membership first goes to answers ForwardToLeader   *)
(* naming leader L, the client stores L as its leader, sends the same       *)
(* request again to L's api address and returns what L answers; a later     *)
(* call sends its first request to the stored leader.                       *)
WritesForwarded ==
    /\ [](FirstForwards
          => /\ Len(client.got) = 1 => client.leader = Named(client.got[1])
             /\ \/ Len(client.sent) = 1 /\ client.pc = "sending"
                \/ /\ Len(client.sent) > 1
                   /\ client.sent[2] = [client.sent[1] EXCEPT !.to = Named(client.got[1])]
             /\ (Len(client.got) > 1 /\ ~NamesLeader(client.got[2]))
                => client.pc = "done" /\ client.result = client.got[2])
    /\ [][/\ client'.calls # client.calls => client'.leader = client.leader
          /\ (client.sent = <<>> /\ client'.sent # <<>>)
             => client'.sent = <<[to |-> client.leader, uri |-> client.uri,
                                  req |-> client.req]>>]_vars

(* A write to a non-leader was forwarded to the leader it named and         *)
(* returned the leader's Ok.                                                *)
WritesForwardedReached ==
    /\ FirstForwards /\ client.uri = "write" /\ client.pc = "done"
    /\ Named(client.got[1]) # client.created
    /\ Len(client.got) = 2 /\ client.result.kind = "Ok"
    /\ client.leader = Named(client.got[1])

(* The responses recorded for u by its coordinator n. *)
Recorded(c, u) == {c.tally[u].pre[q] : q \in DOMAIN c.tally[u].pre}

(* The number of recorded responses that carry the proposal p. *)
Agreeing(c, u, p) == Cardinality({q \in DOMAIN c.tally[u].pre : c.tally[u].pre[q] = p})

(* The message o carries the decision (tag, u, ts, deps) to all peers. *)
Decides(o, tag, u, ts, deps) ==
    /\ o.to = Peers /\ o.msg.tag = tag /\ o.msg.id = u
    /\ o.msg.ts = ts /\ o.msg.deps = deps

(* C21, decision rule on PreAcceptOk: when the coordinator records a        *)
(* response for T, the driver sends Commit(T, tx, deps) if at least F of    *)
(* the recorded responses carry that one (tx, deps); otherwise, with at     *)
(* least S responses recorded, it sends Accept with the maximum proposed    *)
(* timestamp and the union of the proposed deps; otherwise it sends         *)
(* nothing.                                                                 *)
DecisionRule ==
    [][\A n \in topo : \A u \in DOMAIN coord[n].tally :
         coord'[n].tally[u].pre # coord[n].tally[u].pre
         => LET c    == coord'[n]
                F    == FastQuorum(Cardinality(topo))
                S    == SlowQuorum(Cardinality(topo))
                fast == {p \in Recorded(c, u) : Agreeing(c, u, p) >= F}
            IN  IF fast # {}
                THEN /\ lastOut' # <<>>
                     /\ \E p \in fast : Decides(lastOut'[1], "Commit", u, p.ts, p.deps)
                ELSE IF Cardinality(DOMAIN c.tally[u].pre) >= S
                THEN /\ Len(lastOut') = 1
                     /\ \E p \in Recorded(c, u) :
                          /\ \A q \in Recorded(c, u) : TsLeq(q.ts, p.ts)
                          /\ Decides(lastOut'[1], "Accept", u, p.ts,
                                     UNION {q.deps : q \in Recorded(c, u)})
                ELSE lastOut' = <<>>]_vars

(* A coordinator recorded a slow-path quorum of responses that differ and   *)
(* sent the Accept.                                                         *)
DecisionRuleReached ==
    /\ lastIn.msg.tag = "PreAcceptOk" /\ lastOut # <<>>
    /\ lastOut[1].msg.tag = "Accept"
    /\ Cardinality(Recorded(coord[lastIn.node], lastIn.msg.id)) > 1

(* The peers whose AcceptOk the coordinator of u has recorded. *)
AcksOf(u) == coord[u[2]].tally[u].acc

(* C22, slow-path commit needs a quorum of acks: a Commit that follows an   *)
(* Accept round is sent only when AcceptOk is recorded from at least S      *)
(* distinct peers and carries the (tx, deps) of the Accept that was         *)
(* broadcast; an AcceptOk that leaves fewer than S distinct peers recorded, *)
(* repeated ones included, sends nothing.                                   *)
SlowPathCommit ==
    /\ \A u \in DOMAIN hist.decided : \A i \in 1..Len(hist.decided[u]) :
          LET d == hist.decided[u][i]
          IN  \/ d \in hist.fast
              \/ /\ Cardinality(AcksOf(u)) >= SlowQuorum(Cardinality(topo))
                 /\ d \in hist.accepts
    /\ (lastIn.msg.tag = "AcceptOk" /\ lastIn.msg.id \in DOMAIN coord[lastIn.node].tally)
       => \/ lastOut = <<>>
          \/ /\ Cardinality(AcksOf(lastIn.msg.id)) >= SlowQuorum(Cardinality(topo))
             /\ lastOut[1].to = Peers /\ lastOut[1].msg.tag = "Commit"
             /\ Decision(lastOut[1].msg) \in hist.accepts
             /\ lastOut[1].msg.id = lastIn.msg.id

(* The second distinct AcceptOk made the coordinator send the Commit. *)
SlowPathCommitReached ==
    /\ lastIn.msg.tag = "AcceptOk" /\ lastOut # <<>>
    /\ lastOut[1].msg.tag = "Commit"
    /\ Cardinality(AcksOf(lastIn.msg.id)) = 2

(* Node n takes the message at the head of its link from `from`. *)
Takes(n, from) == inbox'[<<from, n>>] = Tail(inbox[<<from, n>>])

Larger(a, b) == IF a >= b THEN a ELSE b

(* C23, timestamp witnessing: a replica that handles PreAccept(T, t0)       *)
(* proposes max(t0, clock + 1) and advances its clock to the proposal; the  *)
(* clock of a replica never decreases; every executeAt proposed, accepted   *)
(* or committed for T is at least t0.                                       *)
TimestampWitnessing ==
    /\ [](/\ \A p \in hist.props \cup hist.accepts : TsLeq(p.id, p.ts)
          /\ \A u \in DOMAIN hist.decided : \A i \in 1..Len(hist.decided[u]) :
                TsLeq(u, hist.decided[u][i].ts)
          /\ \A n \in topo : \A u \in DOMAIN replica[n].rec :
                TsLeq(u, replica[n].rec[u].ts))
    /\ [][\A n \in topo : replica'[n].clock >= replica[n].clock]_vars
    /\ [][\A n \in topo, from \in topo :
            (/\ Receives(n, from, "PreAccept") /\ Takes(n, from)
             /\ ~Advanced(replica[n], Head(inbox[<<from, n>>]).id,
                          {"Accepted", "Committed", "Applied"}))
            => LET t0   == Head(inbox[<<from, n>>]).ts
                   prop == <<Larger(t0[1], replica[n].clock + 1), t0[2]>>
               IN  /\ replica'[n].clock = prop[1]
                   /\ replica'[n].rec[Head(inbox[<<from, n>>]).id].ts = prop
                   /\ lastOut' # <<>> => lastOut'[1].msg.ts = prop]_vars

(* A replica whose clock had passed t0 proposed a later timestamp. *)
TimestampWitnessingReached ==
    /\ lastIn.msg.tag = "PreAccept" /\ lastOut # <<>>
    /\ TsLess(lastIn.msg.ts, lastOut[1].msg.ts)
    /\ replica[lastIn.node].clock = lastOut[1].msg.ts[1]

CommittedDeps(u) ==
    IF u \in DOMAIN hist.decided THEN hist.decided[u][1].deps ELSE {}

(* C25, deferred reads are eventually answered: the Executor read for T is  *)
(* not invoked before every dependency of T is locally Committed; the       *)
(* ReadOk for T is sent to T's coordinator; and when the run has come to    *)
(* rest no replica still holds a deferred read whose dependencies are all   *)
(* Committed.                                                               *)
DeferredReadsAnswered ==
    /\ \A i \in 1..Len(lastOut) :
          lastOut[i].msg.tag = "ReadOk"
          => /\ \A d \in CommittedDeps(lastOut[i].msg.id) :
                   AtLeastCommitted(replica[lastIn.node], d)
             /\ lastOut[i].to = Peer(lastOut[i].msg.id[2])
    /\ AtRest
       => \A n \in topo : \A r \in replica[n].pendR : ~ReadReady(replica[n], r)

(* The sets of nodes of the topology that form a fast-path quorum. *)
FastQuorums == {q \in SUBSET topo : Cardinality(q) = quorum.fast}

(* C26, quorum arithmetic: for every topology of 1 to 9 nodes the quorum    *)
(* sizes of its snapshot satisfy F > S, and any two sets of F nodes share   *)
(* at least S nodes (2F - N >= S).                                          *)
QuorumArithmetic ==
    quorum # NoQuorum
    => /\ quorum.fast > quorum.slow
       /\ 2 * quorum.fast - Cardinality(topo) >= quorum.slow
       /\ \A a \in FastQuorums, b \in FastQuorums :
             Cardinality(a \cap b) >= quorum.slow

(* C27, ApplyOk has no effect: handling an ApplyOk, of a known or an        *)
(* unknown TxId, first or repeated, sends nothing, returns Ok and leaves    *)
(* every CoordinatorState and ReplicaState as it was.                       *)
ApplyOkNoEffect ==
    [][\A n \in topo, from \in topo :
         (Receives(n, from, "ApplyOk") /\ Takes(n, from))
         => /\ lastOut' = <<>> /\ lastIn'.result = "Ok"
            /\ coord' = coord /\ replica' = replica /\ store' = store
            /\ driver' = driver
            /\ \A l \in DOMAIN inbox : l # <<from, n>> => inbox'[l] = inbox[l]]_vars

(* A coordinator handled an ApplyOk of a TxId it does not know. *)
ApplyOkNoEffectReached ==
    /\ lastIn.msg.tag = "ApplyOk" /\ lastIn.result = "Ok"
    /\ lastIn.msg.id = UnknownId(lastIn.node)

Noted1(f, u) == IF u \in DOMAIN f THEN f[u] ELSE <<>>

TotalRequestBound ==
    client.uri \in Forwarding
    => /\ Len(client.sent) <= NRetry
       /\ (Len(client.got) = NRetry /\ NamesLeader(client.got[NRetry]))
          => /\ Len(client.sent) = NRetry
             /\ client.pc \in {"done", "panicked"}
             /\ Parses(client.got[NRetry].node)
                => client.pc = "done" /\ client.result = client.got[NRetry]

(* A change_membership was forwarded three times in a row and returned the  *)
(* third ForwardToLeader after exactly three requests.                      *)
TotalRequestBoundReached ==
    /\ client.uri = "change_membership" /\ client.pc = "done"
    /\ Len(client.got) = NRetry /\ Len(client.sent) = NRetry
    /\ \A i \in 1..NRetry : NamesLeader(client.got[i]) /\ Parses(client.got[i].node)
    /\ client.result = client.got[NRetry]

(* C31, the leader pointer follows every usable redirect: when a call of    *)
(* send_rpc_to_leader receives a ForwardToLeader that names leader id L and *)
(* a node whose address A is a socket address, the stored leader is (L, A)  *)
(* when the call goes on or returns, on the last attempt too; every other   *)
(* answer, and every other step of the client, leaves the stored leader as  *)
(* it was.                                                                  *)
LeaderFollowsRedirect ==
    [][IF /\ client.pc = "awaiting" /\ client.uri \in Forwarding
          /\ Len(client'.got) = Len(client.got) + 1
          /\ NamesLeader(LastOf(client'.got)) /\ Parses(LastOf(client'.got).node)
       THEN /\ client'.leader = Named(LastOf(client'.got))
            /\ client'.pc \in {"sending", "done"}
       ELSE client'.leader = client.leader]_vars

(* The third ForwardToLeader of a call named another leader than the second *)
(* one; the call returned it and the stored leader is the one it named.     *)
LeaderFollowsRedirectReached ==
    /\ client.uri \in Forwarding /\ client.pc = "done"
    /\ Len(client.got) = NRetry /\ NamesLeader(client.result)
    /\ NamesLeader(client.got[2])
    /\ Named(client.got[NRetry]) # Named(client.got[2])
    /\ client.leader = Named(client.got[NRetry])

====
